---------------------------- MODULE Spec2Model ----------------------------
(***************************************************************************)
(* Model of src/utilities.js: the cached geo-temporal resolution pipeline  *)
(* utilities.convertLocalToUtc (three nested cache.wrap layers around a    *)
(* place search and a timezone lookup), the timezone arithmetic it uses,   *)
(* and utilities.promiseTimeout.                                           *)
(*                                                                         *)
(* Time.  An instant is [valid, min, ms]: minutes since                    *)
(* 2023-01-01T00:00:00.000Z and milliseconds inside that minute; valid =   *)
(* FALSE is an invalid moment / Invalid Date / a null toJSON().            *)
(* Text.  A text is a sequence of one-character strings, so that the       *)
(* template literals of the code are sequence concatenations.              *)
(***************************************************************************)
EXTENDS Integers, Sequences, FiniteSets, TLC

(***************************************************************************)
(* Bounds of the model.                                                    *)
(***************************************************************************)
NumCalls == 2

(***************************************************************************)
(* Program constants.                                                      *)
(***************************************************************************)
\* options.cacheVersion || 1.32, in hundredths
cacheVersion == 132

Calls == 1..NumCalls

\* F(e), with e evaluated once and for all before F is applied
With(e, F(_)) == CHOOSE r \in {F(x) : x \in {e}} : TRUE

Digits == {"0", "1", "2", "3", "4", "5", "6", "7", "8", "9"}

DigitVal(ch) ==
    CASE ch = "0" -> 0 [] ch = "1" -> 1 [] ch = "2" -> 2 [] ch = "3" -> 3
      [] ch = "4" -> 4 [] ch = "5" -> 5 [] ch = "6" -> 6 [] ch = "7" -> 7
      [] ch = "8" -> 8 [] ch = "9" -> 9

\* the decimal number written by the digits s[a..b]
RECURSIVE Num(_, _, _)
Num(s, a, b) == IF b < a THEN 0 ELSE Num(s, a, b - 1) * 10 + DigitVal(s[b])

AllDigits(s, a, b) == \A i \in a..b : s[i] \in Digits

(***************************************************************************)
(* utilities.dateRegex:                                                    *)
(*  ^[0-9]{4}-(0[1-9]|1[0-2])-(0[1-9]|[1-2][0-9]|3[0-1])                    *)
(*   (2[0-3]|[01][0-9]):[0-5][0-9]$                                        *)
(* The pattern has no repetition of variable length, so a match is decided *)
(* position by position.  DatePart is the common prefix of both regexes,   *)
(* TimePart(s, p) the HH:mm group starting at position p.                  *)
(***************************************************************************)
DatePart(s) ==
    /\ Len(s) >= 10
    /\ AllDigits(s, 1, 4)
    /\ s[5] = "-"
    /\ \/ s[6] = "0" /\ s[7] \in (Digits \ {"0"})
       \/ s[6] = "1" /\ s[7] \in {"0", "1", "2"}
    /\ s[8] = "-"
    /\ \/ s[9] = "0" /\ s[10] \in (Digits \ {"0"})
       \/ s[9] \in {"1", "2"} /\ s[10] \in Digits
       \/ s[9] = "3" /\ s[10] \in {"0", "1"}

TimePart(s, p) ==
    /\ Len(s) >= p + 4
    /\ \/ s[p] = "2" /\ s[p + 1] \in {"0", "1", "2", "3"}
       \/ s[p] \in {"0", "1"} /\ s[p + 1] \in Digits
    /\ s[p + 2] = ":"
    /\ s[p + 3] \in {"0", "1", "2", "3", "4", "5"}
    /\ s[p + 4] \in Digits

dateRegex(s) ==
    /\ Len(s) = 16
    /\ DatePart(s)
    /\ s[11] = " "
    /\ TimePart(s, 12)

(***************************************************************************)
(* utilities.fullDateRegex: the same with a T separator and an optional    *)
(* group (:[0-9]{2}\.[0-9]{3}Z)?                                           *)
(***************************************************************************)
fullDateRegex(s) ==
    /\ Len(s) \in {16, 24}
    /\ DatePart(s)
    /\ s[11] = "T"
    /\ TimePart(s, 12)
    /\ Len(s) = 24 =>
          /\ s[17] = ":"
          /\ AllDigits(s, 18, 19)
          /\ s[20] = "."
          /\ AllDigits(s, 21, 23)
          /\ s[24] = "Z"

(***************************************************************************)
(* Calendar arithmetic of moment.utc(string): the fields of a string that  *)
(* matched one of the regexes, checked for overflow as moment does         *)
(* (checkOverflow: day of month, seconds), and turned into an instant.     *)
(***************************************************************************)
InvalidInstant == [valid |-> FALSE, min |-> 0, ms |-> 0]

IsLeap(y) == (y % 4 = 0 /\ y % 100 # 0) \/ y % 400 = 0

DaysInMonth(y, m) ==
    CASE m = 2 -> IF IsLeap(y) THEN 29 ELSE 28
      [] m \in {4, 6, 9, 11} -> 30
      [] OTHER -> 31

RECURSIVE DaysBeforeMonth(_, _)
DaysBeforeMonth(y, m) ==
    IF m <= 1 THEN 0 ELSE DaysBeforeMonth(y, m - 1) + DaysInMonth(y, m - 1)

\* days from 0001-01-01 to y-01-01
DaysBeforeYear(y) ==
    365 * (y - 1) + ((y - 1) \div 4) - ((y - 1) \div 100) + ((y - 1) \div 400)

\* moment.utc(s) for a string s that matched dateRegex or fullDateRegex
ParseMoment(s) ==
    LET y  == Num(s, 1, 4)
        mo == Num(s, 6, 7)
        d  == Num(s, 9, 10)
        h  == Num(s, 12, 13)
        mi == Num(s, 15, 16)
        sec == IF Len(s) = 24 THEN Num(s, 18, 19) ELSE 0
        msec == IF Len(s) = 24 THEN Num(s, 21, 23) ELSE 0
        days == (DaysBeforeYear(y) - DaysBeforeYear(2023))
                  + DaysBeforeMonth(y, mo) + (d - 1)
    IN  IF d > DaysInMonth(y, mo) \/ sec > 59
        THEN InvalidInstant
        ELSE [valid |-> TRUE,
              min |-> (days * 24 + h) * 60 + mi,
              ms |-> sec * 1000 + msec]

(***************************************************************************)
(* The zone data moment-timezone consults in moment.tz(x, zone): the UTC   *)
(* offset, in minutes, in force in the zone at an instant (2023 rules).    *)
(* An identifier the library does not know leaves the moment in UTC.       *)
(***************************************************************************)
MinuteOfDay(dayOfYear, h) == ((dayOfYear - 1) * 24 + h) * 60

ZoneOffsetMin(zone, t) ==
    CASE zone = "Europe/Sofia" ->
            \* EEST from 2023-03-26T01:00Z to 2023-10-29T01:00Z
            IF t.min >= MinuteOfDay(85, 1) /\ t.min < MinuteOfDay(302, 1)
            THEN 180 ELSE 120
      [] zone = "America/Los_Angeles" ->
            \* PDT from 2023-03-12T10:00Z to 2023-11-05T09:00Z
            IF t.min >= MinuteOfDay(71, 10) /\ t.min < MinuteOfDay(309, 9)
            THEN -420 ELSE -480
      [] zone = "Asia/Kolkata" -> 330
      [] zone = "Asia/Kathmandu" -> 345
      [] zone = "Pacific/Marquesas" -> -570
      [] zone = "Australia/Eucla" -> 525
      [] zone = "Pacific/Pitcairn" -> -480
      [] OTHER -> 0

DigitChar(n) ==
    CASE n = 0 -> "0" [] n = 1 -> "1" [] n = 2 -> "2" [] n = 3 -> "3"
      [] n = 4 -> "4" [] n = 5 -> "5" [] n = 6 -> "6" [] n = 7 -> "7"
      [] n = 8 -> "8" [] n = 9 -> "9"

TwoDigits(n) == <<DigitChar(n \div 10), DigitChar(n % 10)>>

InvalidDateText ==
    <<"I", "n", "v", "a", "l", "i", "d", " ", "d", "a", "t", "e">>

\* moment#format('Z') of a moment whose zone offset is off minutes
FormatZ(valid, off) ==
    IF ~valid THEN InvalidDateText
    ELSE LET a == IF off < 0 THEN -off ELSE off
         IN  <<IF off < 0 THEN "-" ELSE "+">> \o TwoDigits(a \div 60)
               \o <<":">> \o TwoDigits(a % 60)

\* the least position at which pat occurs in s, 0 when it does not occur
RECURSIVE IndexFrom(_, _, _)
IndexFrom(s, pat, i) ==
    IF i + Len(pat) - 1 > Len(s) THEN 0
    ELSE IF SubSeq(s, i, i + Len(pat) - 1) = pat THEN i
    ELSE IndexFrom(s, pat, i + 1)

\* String.prototype.replace(pat, rep) with a string pattern: first occurrence
Replace(s, pat, rep) ==
    LET i == IndexFrom(s, pat, 1)
    IN  IF i = 0 THEN s
        ELSE SubSeq(s, 1, i - 1) \o rep \o SubSeq(s, i + Len(pat), Len(s))

NaN == [nan |-> TRUE, val |-> 0]
Number(n) == [nan |-> FALSE, val |-> n]

\* the length of the longest run of digits of s that starts at position i
RECURSIVE DigitRun(_, _)
DigitRun(s, i) ==
    IF i > Len(s) \/ s[i] \notin Digits THEN 0 ELSE 1 + DigitRun(s, i + 1)

\* parseInt(s): optional sign, then the leading digits; NaN without a digit
parseInt(s) ==
    LET signed == Len(s) >= 1 /\ s[1] \in {"+", "-"}
        first == IF signed THEN 2 ELSE 1
        n == DigitRun(s, first)
        v == Num(s, first, first + n - 1)
    IN  IF n = 0 THEN NaN
        ELSE Number(IF signed /\ s[1] = "-" THEN -v ELSE v)

(***************************************************************************)
(* utilities.getTimezoneOffset, convertToUtcDate, convertUtcToLocal.       *)
(* The arguments the pipeline passes are a Date (line 61) or the ISO text  *)
(* with a trailing Z that toJSON() produced, both of which moment.tz reads *)
(* as an absolute instant; toJSON() is null for an invalid moment.         *)
(***************************************************************************)
getTimezoneOffset(localDate, timezoneId) ==
    LET Format(m) == FormatZ(m.valid, ZoneOffsetMin(timezoneId, m))
        Dot(text) == Replace(text, <<":">>, <<".">>)
        Half(text) == Replace(text, <<".", "3">>, <<".", "5">>)
        offset == With(localDate, Format)
    IN  With(With(With(offset, Dot), Half), parseInt)

\* moment.utc(d).add({h: hours}).toJSON()
AddHours(d, hours) ==
    IF ~d.valid \/ hours.nan THEN InvalidInstant
    ELSE [valid |-> TRUE, min |-> d.min + 60 * hours.val, ms |-> d.ms]

\* -x of a number
Negated(x) == IF x.nan THEN NaN ELSE Number(-x.val)

convertToUtcDate(localDate, timezoneId) ==
    LET Add(timezoneOffset) == AddHours(localDate, Negated(timezoneOffset))
    IN  With(getTimezoneOffset(localDate, timezoneId), Add)

convertUtcToLocal(date, timezone) ==
    LET Add(localeOffset) == AddHours(date, localeOffset)
    IN  With(getTimezoneOffset(date, timezone), Add)

(***************************************************************************)
(* Arguments of convertLocalToUtc.  A date argument is a string (its       *)
(* characters), a Date object (its instant, possibly Invalid Date) or some *)
(* other value; a city or country is a text or undefined.                  *)
(***************************************************************************)
StringArg(chars) == [kind |-> "string", text |-> chars, at |-> InvalidInstant]
DateObject(t) == [kind |-> "date", text |-> <<>>, at |-> t]
\* a value that is neither a string nor a Date, e.g. a number
OtherValue == [kind |-> "other", text |-> <<>>, at |-> InvalidInstant]

Text(chars) == [def |-> TRUE, txt |-> chars]
Undefined == [def |-> FALSE, txt |-> <<>>]

\* JavaScript truthiness of a text-or-undefined value
Truthy(x) == x.def /\ x.txt # <<>>

\* `${x}` of a text-or-undefined value
Interpolate(x) ==
    IF x.def THEN x.txt ELSE <<"u", "n", "d", "e", "f", "i", "n", "e", "d">>

\* lines 52-57
Query(city, country) ==
    IF Truthy(city) /\ Truthy(country)
    THEN Text(city.txt \o <<",", " ">> \o country.txt)
    ELSE city

\* line 58 without the two regular expressions
ValidDateAnyString(date) == date.kind \in {"date", "string"}

\* line 58: the condition under which no error is thrown
ValidDate(date) ==
    \/ date.kind = "date"
    \/ date.kind = "string" /\ (dateRegex(date.text) \/ fullDateRegex(date.text))

\* line 61: moment.utc(date).toDate()
ToDate(date) ==
    IF date.kind = "date" THEN date.at ELSE ParseMoment(date.text)

\* `${date}` of a Date: Date.prototype.toString() prints whole seconds
DateToString(d) ==
    IF d.valid THEN [valid |-> TRUE, min |-> d.min, sec |-> d.ms \div 1000]
    ELSE [valid |-> FALSE, min |-> 0, sec |-> 0]

(***************************************************************************)
(* The three cache keys.  The prefixes localToUtc:, location: and utc:     *)
(* keep the three families apart, so each family has its own store below;  *)
(* a key is the record of the parts the template literal concatenates.     *)
(***************************************************************************)
\* an outer key without the query
OuterKeyNoQuery(date, query) ==
    [date |-> DateToString(date), query |-> <<>>, version |-> cacheVersion]

OuterKey(date, query) ==
    [date |-> DateToString(date), query |-> Interpolate(query),
     version |-> cacheVersion]

LocationKey(query) == [query |-> Interpolate(query), version |-> cacheVersion]

TimezoneKey(location) ==
    [lat |-> location.lat, lng |-> location.lng, version |-> cacheVersion]

(***************************************************************************)
(* Values that travel through the callbacks.                               *)
(***************************************************************************)
NoLocation == [lat |-> 0, lng |-> 0]
NoError == [type |-> "none", message |-> "none"]
NoRecord ==
    [utc |-> InvalidInstant, timezone |-> "none", timezoneOffset |-> NaN,
     local |-> InvalidInstant, lat |-> 0, lng |-> 0]

Error(msg) == [type |-> "Error", message |-> msg]
TypeError == [type |-> "TypeError", message |-> "Cannot read property 'lat'"]
\* the rejection of request-promise when the request to a provider fails
RequestError(provider) == [type |-> "RequestError", message |-> provider]

\* the error of a cache store that fails
CacheBackendError == [type |-> "CacheBackendError", message |-> "store"]

\* what a node-style callback receives: (err, result)
Failed(e) == [ok |-> FALSE, err |-> e, location |-> NoLocation, value |-> NoRecord]
Located(l) == [ok |-> TRUE, err |-> NoError, location |-> l, value |-> NoRecord]
Resolved(r) == [ok |-> TRUE, err |-> NoError, location |-> NoLocation, value |-> r]
Pending == [ok |-> FALSE, err |-> NoError, location |-> NoLocation, value |-> NoRecord]

(***************************************************************************)
(* The producers handed to cache.wrap.                                     *)
(***************************************************************************)
\* a place-search producer that passes on whatever results[0] holds
PlaceProducerUnchecked(resp) ==
    IF resp.fail THEN Failed(RequestError("place search"))
    ELSE Located(resp.location)

\* lines 69-85: what the place-search producer passes to cc
PlaceProducer(resp) ==
    IF resp.fail THEN Failed(RequestError("place search"))
    ELSE IF resp.hasLocation THEN Located(resp.location)
    ELSE Failed(Error(resp.status))

\* lines 116-124: the record built from the call's date and the zone
Assemble(date, timezoneId, location) ==
    LET Record(utc) ==
          [utc |-> utc,
           timezone |-> timezoneId,
           timezoneOffset |-> getTimezoneOffset(date, timezoneId),
           local |-> convertUtcToLocal(utc, timezoneId),
           lat |-> location.lat,
           lng |-> location.lng]
    IN  With(convertToUtcDate(date, timezoneId), Record)

\* the timezone producer without the check of lines 112-114
TimezoneProducerUnchecked(resp, date, location) ==
    IF resp.fail THEN Failed(RequestError("timezone lookup"))
    ELSE Resolved(Assemble(date, resp.timezoneId, location))

\* lines 102-127: what the timezone producer passes to cc
TimezoneProducer(resp, date, location) ==
    IF resp.fail THEN Failed(RequestError("timezone lookup"))
    ELSE IF ~resp.hasTimezoneId THEN Failed(Error("No timezoneId"))
    ELSE Resolved(Assemble(date, resp.timezoneId, location))

\* the location callback taking every error for a soft one
LocationCallbackAllSoft(cb) ==
    IF ~cb.ok THEN Failed(TypeError) ELSE Located(cb.location)

\* lines 86-99: the location callback and the head of the continuation;
\* the result is what reaches the timezone layer (ok) or ccMain (failure)
LocationCallback(cb) ==
    IF ~cb.ok /\ ~(cb.err.type = "string"
                    /\ cb.err.message \in {"ZERO_RESULTS", "INVALID_REQUEST"})
    THEN Failed(cb.err)
    ELSE IF ~cb.ok
    THEN \* locationDefer.resolve(undefined), then location.lat throws
         Failed(TypeError)
    ELSE Located(cb.location)

\* lines 128-138: the timezone callback, passed on to ccMain
TimezoneCallback(cb) == IF ~cb.ok THEN Failed(cb.err) ELSE Resolved(cb.value)

\* an outer callback that rejects with an error of its own
OuterCallbackOwnError(cb) ==
    IF ~cb.ok THEN Failed(Error("conversion failed")) ELSE Resolved(cb.value)

\* lines 139-145: the outer callback, which settles the promise
OuterCallback(cb) == IF ~cb.ok THEN Failed(cb.err) ELSE Resolved(cb.value)

(***************************************************************************)
(* The cache store collaborator, cache.wrap(key, work, cb): work runs only *)
(* on a miss, a call that finds the key being computed waits for that      *)
(* computation, a successful result is stored and a failure is not.        *)
(***************************************************************************)
\* a store that starts a second computation for a key being computed
WrapLookupNoJoin(store, inFlight, key) ==
    IF key \in DOMAIN store THEN "hit" ELSE "miss"

WrapLookup(store, inFlight, key) ==
    IF key \in DOMAIN store THEN "hit"
    ELSE IF key \in inFlight THEN "join"
    ELSE "miss"

\* cache.wrap when the store itself fails: the callback gets the store's
\* error, and nothing is computed or stored
WrapFailure == Failed(CacheBackendError)

\* a store that keeps nothing
WrapStoreNothing(store, key, ok, value) == store

WrapStore(store, key, ok, value) ==
    IF ok /\ key \notin DOMAIN store THEN (key :> value) @@ store ELSE store

(***************************************************************************)
(* Inputs and provider answers explored by the model.                      *)
(***************************************************************************)
Sofia == <<"S", "o", "f", "i", "a">>
Bulgaria == <<"B", "u", "l", "g", "a", "r", "i", "a">>

\* "2023-03-10 10:00"
DateA == StringArg(<<"2", "0", "2", "3", "-", "0", "3", "-", "1", "0", " ",
                     "1", "0", ":", "0", "0">>)
\* "2023-03-28T10:00"
DateB == StringArg(<<"2", "0", "2", "3", "-", "0", "3", "-", "2", "8", "T",
                     "1", "0", ":", "0", "0">>)
\* "2023-13-40 25:99"
DateBadShape == StringArg(<<"2", "0", "2", "3", "-", "1", "3", "-", "4", "0",
                            " ", "2", "5", ":", "9", "9">>)
\* "2023-02-31 10:00"
DateFeb31 == StringArg(<<"2", "0", "2", "3", "-", "0", "2", "-", "3", "1", " ",
                         "1", "0", ":", "0", "0">>)

\* "2023-03-10T10:00:00Z": seconds without the milliseconds
DateNoMillis == StringArg(<<"2", "0", "2", "3", "-", "0", "3", "-", "1", "0",
                            "T", "1", "0", ":", "0", "0", ":", "0", "0", "Z">>)

DateArgs == {DateA, DateB, DateBadShape, DateFeb31, DateNoMillis, OtherValue}

SofiaBulgaria == [city |-> Text(Sofia), country |-> Text(Bulgaria)]
SofiaAlone == [city |-> Text(Sofia), country |-> Undefined]

PlaceArgs == {SofiaBulgaria, SofiaAlone}

\* the date arguments that are neither a Date nor a string of one of the two
\* accepted shapes
MalformedDates == {DateBadShape, DateNoMillis, OtherValue}

\* the arguments of the invocations; a malformed date is tried with one place
\* only, the throw of line 59 being the same for every place
CallArgs ==
    {a \in [date : DateArgs, place : PlaceArgs] :
        a.date \in MalformedDates => a.place = SofiaBulgaria}

NoArgs == [date |-> OtherValue, city |-> Undefined, country |-> Undefined]

\* the place search finds both spellings of the city at the same coordinates
SofiaLocation == [lat |-> 4270, lng |-> 2332]

PlaceResponses ==
    {[fail |-> FALSE, status |-> "OK", hasLocation |-> TRUE,
      location |-> SofiaLocation],
     [fail |-> FALSE, status |-> "ZERO_RESULTS", hasLocation |-> FALSE,
      location |-> NoLocation],
     [fail |-> TRUE, status |-> "none", hasLocation |-> FALSE,
      location |-> NoLocation]}

TimezoneResponses ==
    {[fail |-> FALSE, hasTimezoneId |-> TRUE, timezoneId |-> "Europe/Sofia"],
     [fail |-> FALSE, hasTimezoneId |-> FALSE, timezoneId |-> "none"],
     [fail |-> TRUE, hasTimezoneId |-> FALSE, timezoneId |-> "none"]}

(***************************************************************************)
(* State.                                                                  *)
(*  pc[c]        where invocation c of convertLocalToUtc stands            *)
(*  args[c]      its arguments                                             *)
(*  location[c]  the location its continuation (line 94) received          *)
(*  outcome[c]   what its promise settled with                             *)
(*  outerStore, locationStore, timezoneStore: the cache store, by family   *)
(*  placeRequests[c], timezoneRequests[c]: requests issued by c            *)
(*  settledBefore[c]: the invocations already settled when c was invoked   *)
(*  placeAnswer[c], timezoneAnswer[c]: how the provider answered them      *)
(*  keys[c]      the outer and the location key c was invoked with         *)
(*  timer[c], race[c]: the timer and the Promise.race of the               *)
(*               promiseTimeout(ms, p) a caller applied to the promise p   *)
(*               of invocation c                                           *)
(*  wrapError[c] the cache layer whose cache.wrap reported an error of the  *)
(*               store itself to invocation c, "none" when none did        *)
(*  math         the arguments and results of the timezone arithmetic      *)
(*               (getTimezoneOffset, convertToUtcDate, convertUtcToLocal)  *)
(*               when a caller uses it on its own                          *)
(***************************************************************************)
VARIABLES pc, args, location, outcome, outerStore, locationStore,
          timezoneStore, placeRequests, timezoneRequests, settledBefore,
          placeAnswer, timezoneAnswer, keys, wrapError, timer, race, math

vars == <<pc, args, location, outcome, outerStore, locationStore,
          timezoneStore, placeRequests, timezoneRequests, settledBefore,
          placeAnswer, timezoneAnswer, keys, wrapError, timer, race, math>>

\* the state of the pipeline, i.e. everything but the timeout wrapper
pipeline == <<pc, args, location, outcome, outerStore, locationStore,
              timezoneStore, placeRequests, timezoneRequests, settledBefore,
              placeAnswer, timezoneAnswer, keys, wrapError>>

\* the timezone arithmetic has not been called
NoMath == [step |-> "none", zone |-> "none", t |-> InvalidInstant,
           offset |-> NaN, utc |-> InvalidInstant, local |-> InvalidInstant]

NoKeys == [built |-> FALSE, outer |-> OuterKey(InvalidInstant, Undefined),
           location |-> LocationKey(Undefined)]
BuiltKeys(date, city, country) ==
    [built |-> TRUE,
     outer |-> OuterKey(ToDate(date), Query(city, country)),
     location |-> LocationKey(Query(city, country))]

dateOf(c) == ToDate(args[c].date)
queryOf(c) == Query(args[c].city, args[c].country)
\* the keys built at lines 64 and 67 when c was invoked
outerKeyOf(c) == keys[c].outer
locationKeyOf(c) == keys[c].location
timezoneKeyOf(c) == TimezoneKey(location[c])

\* Promise.race: not created, pending, or settled by the member that won
NotRaced == [by |-> "none", with |-> Pending]
RacePending == [by |-> "pending", with |-> Pending]
RaceWonBy(member, result) == [by |-> member, with |-> result]

\* the invocations whose caller wraps the returned promise in promiseTimeout
TimedCalls == {1}

Settled == {c \in Calls : pc[c] \in {"thrown", "resolved", "rejected"}}

\* the keys some invocation is computing at this moment
OuterInFlight ==
    {outerKeyOf(c) : c \in {x \in Calls :
        pc[x] \in {"locReq", "locWait", "tzReq", "tzWait"}}}
LocationInFlight == {locationKeyOf(c) : c \in {x \in Calls : pc[x] = "locReq"}}
TimezoneInFlight == {timezoneKeyOf(c) : c \in {x \in Calls : pc[x] = "tzReq"}}

Init ==
    /\ pc = [c \in Calls |-> "idle"]
    /\ args = [c \in Calls |-> NoArgs]
    /\ location = [c \in Calls |-> NoLocation]
    /\ outcome = [c \in Calls |-> Pending]
    /\ outerStore = <<>>
    /\ locationStore = <<>>
    /\ timezoneStore = <<>>
    /\ placeRequests = [c \in Calls |-> 0]
    /\ timezoneRequests = [c \in Calls |-> 0]
    /\ settledBefore = [c \in Calls |-> {}]
    /\ placeAnswer = [c \in Calls |-> "none"]
    /\ timezoneAnswer = [c \in Calls |-> "none"]
    /\ keys = [c \in Calls |-> NoKeys]
    /\ wrapError = [c \in Calls |-> "none"]
    /\ timer = [c \in Calls |-> "unset"]
    /\ race = [c \in Calls |-> NotRaced]
    /\ math = NoMath

(***************************************************************************)
(* ccMain: the outer producers in DOMAIN done finish with done[c].  The    *)
(* outer wrap stores a success under the producer's key and calls back the *)
(* producer and every invocation waiting for that key (lines 139-145).     *)
(* basePc is pc with the moves of the invocations that do not finish.      *)
(***************************************************************************)
RECURSIVE StoreAll(_, _, _)
StoreAll(store, done, S) ==
    IF S = {} THEN store
    ELSE LET w == CHOOSE x \in S : TRUE
         IN  StoreAll(WrapStore(store, outerKeyOf(w), done[w].ok, done[w].value),
                      done, S \ {w})

ProducerFor(done, x) == CHOOSE w \in DOMAIN done : outerKeyOf(w) = outerKeyOf(x)

Notified(done, x) ==
    \/ x \in DOMAIN done
    \/ pc[x] = "outerWait" /\ \E w \in DOMAIN done : outerKeyOf(w) = outerKeyOf(x)

ccMain(results, basePc) ==
    \E done \in {results} :
       /\ pc' = [x \in Calls |->
                   IF Notified(done, x)
                   THEN IF done[ProducerFor(done, x)].ok THEN "resolved"
                        ELSE "rejected"
                   ELSE basePc[x]]
       /\ outcome' = [x \in Calls |->
                   IF Notified(done, x) THEN done[ProducerFor(done, x)]
                   ELSE outcome[x]]
       /\ outerStore' = StoreAll(outerStore, done, DOMAIN done)

(***************************************************************************)
(* convertLocalToUtc(date, city, country), lines 51-146, up to the first   *)
(* network request it has to wait for.  Invocations are numbered in the    *)
(* order in which they are made.                                           *)
(***************************************************************************)
Throw(c) ==
    /\ pc' = [pc EXCEPT ![c] = "thrown"]
    /\ UNCHANGED <<location, outcome, outerStore, locationStore, timezoneStore,
                   placeRequests, timezoneRequests>>

\* line 100 for an invocation that holds location l: hit, join or miss
TimezoneLookup(l) == WrapLookup(timezoneStore, TimezoneInFlight, TimezoneKey(l))

\* an outer producer whose place search is not behind the location cache
ProduceUncachedLocation(c, oKey, lKey) ==
    /\ pc' = [pc EXCEPT ![c] = "locReq"]
    /\ location' = [location EXCEPT ![c] = NoLocation]
    /\ placeRequests' = [placeRequests EXCEPT ![c] = 1]
    /\ timezoneRequests' = [timezoneRequests EXCEPT ![c] = 0]
    /\ outcome' = [outcome EXCEPT ![c] = Pending]
    /\ UNCHANGED <<outerStore, locationStore, timezoneStore>>

\* lines 64-138 run by the outer producer of invocation c
Produce(c, oKey, lKey) ==
    LET lLook == WrapLookup(locationStore, LocationInFlight, lKey)
        cb == LocationCallback(Located(locationStore[lKey]))
        tLook == TimezoneLookup(cb.location)
        hit == lLook = "hit" /\ tLook = "hit"
        result == TimezoneCallback(Resolved(timezoneStore[TimezoneKey(cb.location)]))
    IN  /\ pc' = [pc EXCEPT ![c] =
                    CASE lLook = "join" -> "locWait"
                      [] lLook = "miss" -> "locReq"
                      [] lLook = "hit" /\ tLook = "join" -> "tzWait"
                      [] lLook = "hit" /\ tLook = "miss" -> "tzReq"
                      [] OTHER -> "resolved"]
        /\ location' = [location EXCEPT ![c] =
                    IF lLook = "hit" THEN cb.location ELSE NoLocation]
        /\ placeRequests' = [placeRequests EXCEPT ![c] =
                    IF lLook = "miss" THEN 1 ELSE 0]
        /\ timezoneRequests' = [timezoneRequests EXCEPT ![c] =
                    IF lLook = "hit" /\ tLook = "miss" THEN 1 ELSE 0]
        /\ outcome' = [outcome EXCEPT ![c] = IF hit THEN result ELSE Pending]
        /\ outerStore' = IF hit THEN WrapStore(outerStore, oKey, TRUE, result.value)
                         ELSE outerStore
        /\ UNCHANGED <<locationStore, timezoneStore>>

convertLocalToUtc(c, date, city, country) ==
    /\ pc[c] = "idle"
    /\ \A b \in Calls : b < c => pc[b] # "idle"
    /\ args' = [args EXCEPT ![c] =
                  [date |-> date, city |-> city, country |-> country]]
    /\ settledBefore' = [settledBefore EXCEPT ![c] = Settled]
    /\ UNCHANGED <<placeAnswer, timezoneAnswer, wrapError, math>>
    /\ IF ~ValidDate(date) THEN Throw(c) /\ UNCHANGED keys
       ELSE \E k \in {BuiltKeys(date, city, country)} :
              \E look \in {WrapLookup(outerStore, OuterInFlight, k.outer)} :
                 /\ keys' = [keys EXCEPT ![c] = k]
                 /\ CASE look = "hit" ->
                           /\ pc' = [pc EXCEPT ![c] = "resolved"]
                           /\ outcome' = [outcome EXCEPT ![c] =
                                            Resolved(outerStore[k.outer])]
                           /\ UNCHANGED <<location, outerStore, locationStore,
                                          timezoneStore, placeRequests,
                                          timezoneRequests>>
                      [] look = "join" ->
                           /\ pc' = [pc EXCEPT ![c] = "outerWait"]
                           /\ UNCHANGED <<location, outcome, outerStore,
                                          locationStore, timezoneStore,
                                          placeRequests, timezoneRequests>>
                      [] look = "miss" -> Produce(c, k.outer, k.location)

(***************************************************************************)
(* The place search answers the request of invocation c (lines 76-99).     *)
(***************************************************************************)
LocationWaiters(c) ==
    {c} \cup {x \in Calls : pc[x] = "locWait" /\ locationKeyOf(x) = locationKeyOf(c)}

PlaceResponse(c, resp) ==
    LET cb == PlaceProducer(resp)
        W == LocationWaiters(c)
        after == LocationCallback(cb)
        tLook == TimezoneLookup(after.location)
        tKey == TimezoneKey(after.location)
    IN  /\ pc[c] = "locReq"
        /\ locationStore' =
              WrapStore(locationStore, locationKeyOf(c), cb.ok, cb.location)
        /\ placeAnswer' = [placeAnswer EXCEPT ![c] =
                              IF resp.fail THEN "fail" ELSE resp.status]
        /\ UNCHANGED <<args, settledBefore, placeRequests, timezoneStore,
                       timezoneAnswer, keys, wrapError, math>>
        /\ IF ~after.ok THEN
                /\ ccMain([w \in W |-> after], pc)
                /\ UNCHANGED <<location, timezoneRequests>>
           ELSE /\ location' = [x \in Calls |->
                                  IF x \in W THEN after.location ELSE location[x]]
                /\ timezoneRequests' = [timezoneRequests EXCEPT ![c] =
                                  IF tLook = "miss" THEN 1 ELSE 0]
                /\ IF tLook = "hit"
                   THEN ccMain([w \in W |->
                                  TimezoneCallback(Resolved(timezoneStore[tKey]))], pc)
                   ELSE ccMain(<<>>, [x \in Calls |->
                                  IF x = c /\ tLook = "miss" THEN "tzReq"
                                  ELSE IF x \in W THEN "tzWait"
                                  ELSE pc[x]])

(***************************************************************************)
(* The timezone lookup answers the request of invocation c (lines 111-138).*)
(***************************************************************************)
TimezoneWaiters(c) ==
    {c} \cup {x \in Calls : pc[x] = "tzWait" /\ timezoneKeyOf(x) = timezoneKeyOf(c)}

\* a timezone producer without its .catch(cc): a failure is lost
TimezoneResponseNoCatch(c, resp) ==
    /\ pc[c] = "tzReq"
    /\ timezoneAnswer[c] = "none"
    /\ \E date \in {dateOf(c)} :
         \E cb \in {TimezoneProducer(resp, date, location[c])} :
            IF cb.ok
            THEN /\ timezoneStore' =
                       WrapStore(timezoneStore, timezoneKeyOf(c), cb.ok, cb.value)
                 /\ ccMain([w \in TimezoneWaiters(c) |-> TimezoneCallback(cb)], pc)
            ELSE UNCHANGED <<timezoneStore, pc, outcome, outerStore>>
    /\ timezoneAnswer' = [timezoneAnswer EXCEPT ![c] =
                          IF resp.fail THEN "fail"
                          ELSE IF resp.hasTimezoneId THEN "OK" ELSE "no id"]
    /\ UNCHANGED <<args, settledBefore, location, locationStore,
                   placeRequests, timezoneRequests, placeAnswer, keys,
                   wrapError, math>>

TimezoneResponse(c, resp) ==
    /\ pc[c] = "tzReq"
    /\ \E date \in {dateOf(c)} :
         \E cb \in {TimezoneProducer(resp, date, location[c])} :
            /\ timezoneStore' =
                  WrapStore(timezoneStore, timezoneKeyOf(c), cb.ok, cb.value)
            /\ ccMain([w \in TimezoneWaiters(c) |-> TimezoneCallback(cb)], pc)
    /\ timezoneAnswer' = [timezoneAnswer EXCEPT ![c] =
                          IF resp.fail THEN "fail"
                          ELSE IF resp.hasTimezoneId THEN "OK" ELSE "no id"]
    /\ UNCHANGED <<args, settledBefore, location, locationStore,
                   placeRequests, timezoneRequests, placeAnswer, keys,
                   wrapError, math>>

(***************************************************************************)
(* utilities.promiseTimeout(ms, promise), lines 20-35, applied to the      *)
(* promise of invocation c: it arms a timer and returns                    *)
(* Promise.race([promise, timeout]).  TimerFires is the setTimeout         *)
(* callback; RaceFollows is the reaction of the race to its first member,  *)
(* which runs in the same turn in which that promise settles.              *)
(***************************************************************************)
promiseTimeout(c) ==
    /\ c \in TimedCalls
    /\ pc[c] \notin {"idle", "thrown"}
    /\ timer[c] = "unset"
    /\ timer' = [timer EXCEPT ![c] = "armed"]
    /\ race' = [race EXCEPT ![c] =
                  IF c \in Settled THEN RaceWonBy("promise", outcome[c])
                  ELSE RacePending]
    /\ UNCHANGED <<pipeline, math>>

\* a timer whose rejection replaces whatever the race had settled with
TimerFiresOverrides(c) ==
    /\ timer[c] = "armed"
    /\ timer' = [timer EXCEPT ![c] = "fired"]
    /\ race' = [race EXCEPT ![c] =
                  RaceWonBy("timeout", Failed(Error("Timed out")))]
    /\ UNCHANGED <<pipeline, math>>

\* a timer that also abandons the operation it raced against
TimerFiresCancels(c) ==
    /\ timer[c] = "armed"
    /\ timer' = [timer EXCEPT ![c] = "fired"]
    /\ race' = [race EXCEPT ![c] =
                  IF race[c].by = "pending"
                  THEN RaceWonBy("timeout", Failed(Error("Timed out")))
                  ELSE race[c]]
    /\ pc' = [pc EXCEPT ![c] = IF c \in Settled THEN pc[c] ELSE "rejected"]
    /\ UNCHANGED <<args, location, outcome, outerStore, locationStore,
                   timezoneStore, placeRequests, timezoneRequests,
                   settledBefore, placeAnswer, timezoneAnswer, keys,
                   wrapError, math>>

TimerFires(c) ==
    /\ timer[c] = "armed"
    /\ timer' = [timer EXCEPT ![c] = "fired"]
    /\ race' = [race EXCEPT ![c] =
                  IF race[c].by = "pending"
                  THEN RaceWonBy("timeout", Failed(Error("Timed out")))
                  ELSE race[c]]
    /\ UNCHANGED <<pipeline, math>>

RaceFollows ==
    /\ race' = [x \in Calls |->
                  IF race[x].by = "pending" /\ pc'[x] \in {"resolved", "rejected"}
                  THEN RaceWonBy("promise", outcome'[x])
                  ELSE race[x]]
    /\ UNCHANGED timer

Next ==
    \/ \E c \in Calls, a \in CallArgs :
          convertLocalToUtc(c, a.date, a.place.city, a.place.country)
             /\ RaceFollows
    \/ \E c \in Calls, resp \in PlaceResponses :
          PlaceResponse(c, resp) /\ RaceFollows
    \/ \E c \in Calls, resp \in TimezoneResponses :
          TimezoneResponse(c, resp) /\ RaceFollows
    \/ \E c \in Calls : promiseTimeout(c)
    \/ \E c \in Calls : TimerFires(c)

Spec == Init /\ [][Next]_vars

(***************************************************************************)
(* Fairness: a request that was issued is eventually answered, and an      *)
(* armed timer eventually fires.  Nothing obliges a caller to call.        *)
(***************************************************************************)
FairSpec ==
    /\ Spec
    /\ \A c \in Calls :
          /\ WF_vars(\E resp \in PlaceResponses : PlaceResponse(c, resp) /\ RaceFollows)
          /\ WF_vars(\E resp \in TimezoneResponses :
                        TimezoneResponse(c, resp) /\ RaceFollows)
          /\ WF_vars(TimerFires(c))

(***************************************************************************)
(* The pipeline over a cache store that can fail.  A store that is down    *)
(* fails every cache.wrap made in the same turn, and the first cache.wrap  *)
(* a turn reaches is the one that reports the error: the outer one, the    *)
(* location one after an outer miss, or the coordinate-keyed one after a   *)
(* location hit or after the answer of the place search.                   *)
(***************************************************************************)
Layers == {"outer", "location", "timezone"}

BackendArgs == {a \in CallArgs : a.date \in {DateA, DateB}}

\* convertLocalToUtc(date, city, country) when the store fails at layer
StoreFailsAtCall(c, date, city, country, layer) ==
    /\ pc[c] = "idle"
    /\ \A b \in Calls : b < c => pc[b] # "idle"
    /\ ValidDate(date)
    /\ \E k \in {BuiltKeys(date, city, country)} :
         LET outerMiss == WrapLookup(outerStore, OuterInFlight, k.outer) = "miss"
             locationHit ==
                WrapLookup(locationStore, LocationInFlight, k.location) = "hit"
             found == LocationCallback(Located(locationStore[k.location]))
             result ==
                CASE layer = "outer" -> OuterCallback(WrapFailure)
                  [] layer = "location" ->
                        OuterCallback(LocationCallback(WrapFailure))
                  [] layer = "timezone" ->
                        OuterCallback(TimezoneCallback(WrapFailure))
         IN  /\ layer = "location" => outerMiss
             /\ layer = "timezone" => outerMiss /\ locationHit
             /\ keys' = [keys EXCEPT ![c] = k]
             /\ location' = [location EXCEPT ![c] =
                    IF layer = "timezone" THEN found.location ELSE NoLocation]
             /\ outcome' = [outcome EXCEPT ![c] = result]
             /\ pc' = [pc EXCEPT ![c] =
                    IF result.ok THEN "resolved" ELSE "rejected"]
    /\ args' = [args EXCEPT ![c] =
                  [date |-> date, city |-> city, country |-> country]]
    /\ settledBefore' = [settledBefore EXCEPT ![c] = Settled]
    /\ wrapError' = [wrapError EXCEPT ![c] = layer]
    /\ UNCHANGED <<outerStore, locationStore, timezoneStore, placeRequests,
                   timezoneRequests, placeAnswer, timezoneAnswer, math>>

\* the place search answers invocation c with a location, and the store
\* fails when the continuation (line 100) reaches the coordinate-keyed layer
StoreFailsAtPlaceResponse(c, resp) ==
    LET cb == PlaceProducer(resp)
        W == LocationWaiters(c)
        after == LocationCallback(cb)
    IN  /\ pc[c] = "locReq"
        /\ after.ok
        /\ locationStore' =
              WrapStore(locationStore, locationKeyOf(c), cb.ok, cb.location)
        /\ placeAnswer' = [placeAnswer EXCEPT ![c] = resp.status]
        /\ location' = [x \in Calls |->
                          IF x \in W THEN after.location ELSE location[x]]
        /\ wrapError' = [x \in Calls |->
                          IF x \in W THEN "timezone" ELSE wrapError[x]]
        /\ ccMain([w \in W |-> TimezoneCallback(WrapFailure)], pc)
        /\ UNCHANGED <<args, settledBefore, placeRequests, timezoneRequests,
                       timezoneStore, timezoneAnswer, keys, math>>

BackendNext ==
    \/ \E c \in Calls, a \in BackendArgs :
          convertLocalToUtc(c, a.date, a.place.city, a.place.country)
             /\ RaceFollows
    \/ \E c \in Calls, resp \in PlaceResponses :
          PlaceResponse(c, resp) /\ RaceFollows
    \/ \E c \in Calls, resp \in TimezoneResponses :
          TimezoneResponse(c, resp) /\ RaceFollows
    \/ \E c \in Calls, a \in BackendArgs, layer \in Layers :
          StoreFailsAtCall(c, a.date, a.place.city, a.place.country, layer)
             /\ RaceFollows
    \/ \E c \in Calls, resp \in PlaceResponses :
          StoreFailsAtPlaceResponse(c, resp) /\ RaceFollows

BackendSpec == Init /\ [][BackendNext]_vars

\* a request that was issued is eventually answered; cache.wrap calls back
\* in the turn in which it is called or in which its producer finishes
FairBackendSpec ==
    /\ BackendSpec
    /\ \A c \in Calls :
          /\ WF_vars(\E resp \in PlaceResponses : PlaceResponse(c, resp) /\ RaceFollows)
          /\ WF_vars(\E resp \in TimezoneResponses :
                        TimezoneResponse(c, resp) /\ RaceFollows)

(***************************************************************************)
(* promiseTimeout over the pipeline called with well-formed dates only:    *)
(* the operation it races is any promise the pipeline returns.             *)
(***************************************************************************)
TimeoutNext ==
    \/ \E c \in Calls, a \in BackendArgs :
          convertLocalToUtc(c, a.date, a.place.city, a.place.country)
             /\ RaceFollows
    \/ \E c \in Calls, resp \in PlaceResponses :
          PlaceResponse(c, resp) /\ RaceFollows
    \/ \E c \in Calls, resp \in TimezoneResponses :
          TimezoneResponse(c, resp) /\ RaceFollows
    \/ \E c \in Calls : promiseTimeout(c)
    \/ \E c \in Calls : TimerFires(c)

TimeoutSpec ==
    /\ Init /\ [][TimeoutNext]_vars
    /\ \A c \in Calls :
          /\ WF_vars(\E resp \in PlaceResponses : PlaceResponse(c, resp) /\ RaceFollows)
          /\ WF_vars(\E resp \in TimezoneResponses :
                        TimezoneResponse(c, resp) /\ RaceFollows)
          /\ WF_vars(TimerFires(c))

(***************************************************************************)
(* Key construction on its own (lines 52-67): the keys of invocations      *)
(* whose arguments range over texts that are missing, empty, or contain    *)
(* the separator.                                                          *)
(***************************************************************************)
TextA == <<"a">>
TextB == <<"b">>
TextC == <<"c">>
TextAcommaB == <<"a", ",", " ", "b">>
TextBcommaC == <<"b", ",", " ", "c">>

KeyCities == {Text(TextA), Text(TextAcommaB), Text(<<>>), Undefined}
KeyCountries == {Text(TextB), Text(TextC), Text(TextBcommaC), Undefined}
\* "2023-03-10T10:00:00.500Z": half a second after DateA
DateAHalf == StringArg(<<"2", "0", "2", "3", "-", "0", "3", "-", "1", "0", "T",
                         "1", "0", ":", "0", "0", ":", "0", "0", ".", "5", "0",
                         "0", "Z">>)

KeyDates == {DateA, DateB, DateAHalf}

KeyInit ==
    /\ args \in [Calls -> [date : KeyDates, city : KeyCities, country : KeyCountries]]
    /\ pc = [c \in Calls |-> "idle"]
    /\ location = [c \in Calls |-> NoLocation]
    /\ outcome = [c \in Calls |-> Pending]
    /\ outerStore = <<>>
    /\ locationStore = <<>>
    /\ timezoneStore = <<>>
    /\ placeRequests = [c \in Calls |-> 0]
    /\ timezoneRequests = [c \in Calls |-> 0]
    /\ settledBefore = [c \in Calls |-> {}]
    /\ placeAnswer = [c \in Calls |-> "none"]
    /\ timezoneAnswer = [c \in Calls |-> "none"]
    /\ keys = [c \in Calls |-> NoKeys]
    /\ wrapError = [c \in Calls |-> "none"]
    /\ timer = [c \in Calls |-> "unset"]
    /\ race = [c \in Calls |-> NotRaced]
    /\ math = NoMath

\* lines 52-67 for the arguments of invocation c
BuildKeys(c) ==
    /\ ~keys[c].built
    /\ keys' = [keys EXCEPT ![c] =
                  BuiltKeys(args[c].date, args[c].city, args[c].country)]
    /\ UNCHANGED <<pc, args, location, outcome, outerStore, locationStore,
                   timezoneStore, placeRequests, timezoneRequests,
                   settledBefore, placeAnswer, timezoneAnswer, wrapError,
                   timer, race, math>>

KeyNext == \E c \in Calls : BuildKeys(c)

KeySpec == KeyInit /\ [][KeyNext]_vars

(***************************************************************************)
(* The timezone arithmetic on its own (lines 151-165): a caller has a Date *)
(* t and a zone, asks for the offset, converts t to UTC, and converts the  *)
(* result back.  The dates lie half an hour apart on a timeline that       *)
(* starts at 2023-03-25T20:00Z, five hours before Europe/Sofia moves its   *)
(* clocks forward.                                                         *)
(***************************************************************************)
TimelineSteps == 24

Instant(m) == [valid |-> TRUE, min |-> m, ms |-> 0]

Timeline == {Instant(MinuteOfDay(84, 20) + 30 * k) : k \in 0..TimelineSteps}

MathZones == {"Europe/Sofia", "America/Los_Angeles", "Asia/Kolkata",
              "Asia/Kathmandu", "Pacific/Marquesas", "Australia/Eucla",
              "Pacific/Pitcairn", "Etc/UTC"}

MathInit ==
    /\ math \in {[NoMath EXCEPT !.step = "input", !.zone = z, !.t = t] :
                    z \in MathZones, t \in Timeline}
    /\ pc = [c \in Calls |-> "idle"]
    /\ args = [c \in Calls |-> NoArgs]
    /\ location = [c \in Calls |-> NoLocation]
    /\ outcome = [c \in Calls |-> Pending]
    /\ outerStore = <<>>
    /\ locationStore = <<>>
    /\ timezoneStore = <<>>
    /\ placeRequests = [c \in Calls |-> 0]
    /\ timezoneRequests = [c \in Calls |-> 0]
    /\ settledBefore = [c \in Calls |-> {}]
    /\ placeAnswer = [c \in Calls |-> "none"]
    /\ timezoneAnswer = [c \in Calls |-> "none"]
    /\ keys = [c \in Calls |-> NoKeys]
    /\ wrapError = [c \in Calls |-> "none"]
    /\ timer = [c \in Calls |-> "unset"]
    /\ race = [c \in Calls |-> NotRaced]

\* utilities.getTimezoneOffset(t, zone)
OffsetCall ==
    /\ math.step = "input"
    /\ math' = [math EXCEPT !.step = "offset",
                             !.offset = getTimezoneOffset(math.t, math.zone)]
    /\ UNCHANGED <<pipeline, timer, race>>

\* utilities.convertToUtcDate(t, zone)
ToUtcCall ==
    /\ math.step = "offset"
    /\ math' = [math EXCEPT !.step = "utc",
                             !.utc = convertToUtcDate(math.t, math.zone)]
    /\ UNCHANGED <<pipeline, timer, race>>

\* utilities.convertUtcToLocal(utc, zone) of the result of convertToUtcDate
ToLocalCall ==
    /\ math.step = "utc"
    /\ math' = [math EXCEPT !.step = "local",
                             !.local = convertUtcToLocal(math.utc, math.zone)]
    /\ UNCHANGED <<pipeline, timer, race>>

MathNext == OffsetCall \/ ToUtcCall \/ ToLocalCall

MathSpec == MathInit /\ [][MathNext]_vars

(***************************************************************************)
(*                              Properties                                 *)
(***************************************************************************)
Invoked(c) == keys[c].built
SameArgs(c1, c2) == args[c1] = args[c2]
NoRequests(c) == placeRequests[c] = 0 /\ timezoneRequests[c] = 0

\* c2 was invoked while the valid invocation c1 had not settled
Races(c1, c2) ==
    /\ c1 < c2
    /\ Invoked(c1) /\ Invoked(c2)
    /\ SameArgs(c1, c2)
    /\ c1 \notin settledBefore[c2]

\* c2 was invoked after c1 had settled
Follows(c1, c2) == c1 < c2 /\ Invoked(c2) /\ c1 \in settledBefore[c2]

\* no invocation made before c2, other than c1, used the query of c1
AloneOnQuery(c1, c2) ==
    \A x \in Calls :
       (x < c2 /\ x # c1) => (~Invoked(x) \/ keys[x].location # keys[c1].location)

\* no invocation made before c2, other than c1, got past the validation
AloneBefore(c1, c2) ==
    \A x \in Calls : (x < c2 /\ x # c1) => ~Invoked(x)

\* C1 (dogpile prevention): of two invocations with the same arguments, the
\* second made before the first settled, the second issues no place search
\* and no timezone lookup, the two together issue at most one of each, and
\* the second settles when the first does, with the first's result.
C1_Dogpile ==
    \A c1, c2 \in Calls :
       Races(c1, c2) =>
          /\ NoRequests(c2)
          /\ placeRequests[c1] <= 1 /\ timezoneRequests[c1] <= 1
          /\ (c2 \in Settled) <=> (c1 \in Settled)
          /\ c2 \in Settled => pc[c2] = pc[c1] /\ outcome[c2] = outcome[c1]

C1_Witness ==
    \E c1, c2 \in Calls :
       /\ Races(c1, c2)
       /\ placeRequests[c1] = 1 /\ timezoneRequests[c1] = 1
       /\ pc[c2] = "resolved"

\* C2 (negative caching): once the place search has answered a query with
\* ZERO_RESULTS, no later invocation with the same query issues a place
\* search.
C2_NegativeCaching ==
    \A c1, c2 \in Calls :
       (/\ placeAnswer[c1] = "ZERO_RESULTS"
        /\ Follows(c1, c2)
        /\ keys[c2].location = keys[c1].location)
       => placeRequests[c2] = 0

\* C3: the record of every resolved invocation is assembled from the
\* invocation's own date and the timezone of the record.
C3_OwnDate ==
    \A c \in Calls :
       pc[c] = "resolved" =>
          LET r == outcome[c].value
          IN  /\ r.utc = convertToUtcDate(dateOf(c), r.timezone)
              /\ r.local = convertUtcToLocal(r.utc, r.timezone)
              /\ r.timezoneOffset = getTimezoneOffset(dateOf(c), r.timezone)

\* C4 (idempotence): an invocation made with the arguments of an earlier
\* invocation that had resolved issues no request and resolves with an equal
\* value; the earlier one issued at most one request to each provider, and
\* exactly one to each when no other invocation came before the second.
C4_Idempotent ==
    \A c1, c2 \in Calls :
       (Follows(c1, c2) /\ SameArgs(c1, c2) /\ pc[c1] = "resolved") =>
          /\ pc[c2] = "resolved"
          /\ outcome[c2] = outcome[c1]
          /\ NoRequests(c2)
          /\ placeRequests[c1] <= 1 /\ timezoneRequests[c1] <= 1
          /\ AloneBefore(c1, c2) =>
                placeRequests[c1] = 1 /\ timezoneRequests[c1] = 1

C4_Witness ==
    \E c1, c2 \in Calls :
       /\ Follows(c1, c2) /\ SameArgs(c1, c2) /\ AloneBefore(c1, c2)
       /\ pc[c1] = "resolved" /\ pc[c2] = "resolved"
       /\ placeRequests[c1] = 1 /\ timezoneRequests[c1] = 1

\* C5 (hard failure is not cached): an invocation whose place search fails
\* in transport is rejected with that error; the step in which it fails
\* stores nothing under a location key or an outer key; and the next
\* invocation with the same arguments issues a place search of its own.
C5_HardFailure ==
    /\ [](\A c \in Calls :
            placeAnswer[c] = "fail" =>
               /\ pc[c] = "rejected"
               /\ outcome[c] = Failed(RequestError("place search")))
    /\ [](\A c1, c2 \in Calls :
            (/\ placeAnswer[c1] = "fail"
             /\ Follows(c1, c2) /\ SameArgs(c1, c2)
             /\ AloneOnQuery(c1, c2))
            => placeRequests[c2] = 1)
    /\ [][\A c \in Calls :
            (placeAnswer[c] = "none" /\ placeAnswer'[c] = "fail") =>
               /\ locationStore' = locationStore
               /\ outerStore' = outerStore]_vars

C5_Witness ==
    \E c1, c2 \in Calls :
       /\ placeAnswer[c1] = "fail"
       /\ Follows(c1, c2) /\ SameArgs(c1, c2) /\ AloneOnQuery(c1, c2)
       /\ placeRequests[c2] = 1

\* C6 (timezone failure is not cached): an invocation whose timezone lookup
\* answers without a timezoneId is rejected; the step in which it fails
\* stores nothing under a coordinate key or an outer key; and the next
\* invocation with the same arguments issues the timezone lookup again.
C6_TimezoneFailure ==
    /\ [](\A c \in Calls :
            timezoneAnswer[c] = "no id" =>
               /\ pc[c] = "rejected"
               /\ outcome[c] = Failed(Error("No timezoneId")))
    /\ [](\A c1, c2 \in Calls :
            (/\ timezoneAnswer[c1] = "no id"
             /\ Follows(c1, c2) /\ SameArgs(c1, c2)
             /\ AloneBefore(c1, c2))
            => timezoneRequests[c2] = 1)
    /\ [][\A c \in Calls :
            (timezoneAnswer[c] = "none" /\ timezoneAnswer'[c] = "no id") =>
               /\ timezoneStore' = timezoneStore
               /\ outerStore' = outerStore]_vars

C6_Witness ==
    \E c1, c2 \in Calls :
       /\ timezoneAnswer[c1] = "no id"
       /\ Follows(c1, c2) /\ SameArgs(c1, c2) /\ AloneBefore(c1, c2)
       /\ timezoneRequests[c2] = 1

\* C7 (input validation): an invocation with a malformed date throws; it
\* builds no key, issues no request, returns no promise to race, and the
\* step in which it throws changes neither the cache store nor any other
\* invocation.
C7_Validation ==
    /\ [](\A c \in Calls :
            (pc[c] # "idle" /\ args[c].date \in MalformedDates) =>
               /\ pc[c] = "thrown"
               /\ ~Invoked(c)
               /\ NoRequests(c)
               /\ timer[c] = "unset")
    /\ [][\A c \in Calls :
            (pc[c] = "idle" /\ pc'[c] # "idle"
               /\ args'[c].date \in MalformedDates) =>
               /\ UNCHANGED <<outerStore, locationStore, timezoneStore>>
               /\ \A x \in Calls \ {c} : pc'[x] = pc[x]]_vars

C7_Witness ==
    \E c1, c2 \in Calls :
       /\ pc[c1] = "thrown" /\ args[c1].date = DateBadShape
       /\ pc[c2] = "thrown" /\ args[c2].date = DateNoMillis

\* C8 (the timeout is advisory): when the timer fires while the operation
\* is pending the race is rejected with the timeout error and stays so; the
\* firing of the timer changes nothing of the pipeline; and the operation
\* still settles.
C8_TimeoutAdvisory ==
    /\ [][\A c \in Calls :
            (timer[c] = "armed" /\ timer'[c] = "fired") =>
               /\ UNCHANGED pipeline
               /\ race[c].by = "pending" =>
                     race'[c] = RaceWonBy("timeout", Failed(Error("Timed out")))]_vars
    /\ [][\A c \in Calls : race[c].by = "timeout" => race'[c] = race[c]]_vars
    /\ \A c \in TimedCalls : (race[c].by = "timeout") ~> (c \in Settled)

\* the operation completed after its caller had timed out, and its result
\* is in the cache
C8_Witness ==
    \E c \in Calls :
       /\ race[c].by = "timeout"
       /\ pc[c] = "resolved"
       /\ placeRequests[c] = 1 /\ timezoneRequests[c] = 1
       /\ keys[c].outer \in DOMAIN outerStore
       /\ outerStore[keys[c].outer] = outcome[c].value

\* the text that `${query}` contributes to the keys of invocation c
QueryText(c) == Interpolate(queryOf(c))

SameDate(c1, c2) == args[c1].date = args[c2].date
DifferentPlace(c1, c2) ==
    <<args[c1].city, args[c1].country>> # <<args[c2].city, args[c2].country>>
DifferentKeys(c1, c2) ==
    /\ keys[c1].outer # keys[c2].outer
    /\ keys[c1].location # keys[c2].location

\* C9 as stated (cache key independence): two invocations with the same date
\* and different (city, country) pairs have different outer keys and
\* different location keys.
C9_KeyIndependence ==
    \A c1, c2 \in Calls :
       (Invoked(c1) /\ Invoked(c2) /\ SameDate(c1, c2) /\ DifferentPlace(c1, c2))
       => DifferentKeys(c1, c2)

\* C9 as amended: two invocations with the same date whose (city, country)
\* pairs give different query texts have different outer keys and different
\* location keys.
C9_QueryIndependence ==
    \A c1, c2 \in Calls :
       (Invoked(c1) /\ Invoked(c2) /\ SameDate(c1, c2)
          /\ QueryText(c1) # QueryText(c2))
       => DifferentKeys(c1, c2)

C9_Witness ==
    \E c1, c2 \in Calls :
       /\ Invoked(c1) /\ Invoked(c2) /\ SameDate(c1, c2)
       /\ args[c1].city = Text(TextA) /\ args[c1].country = Text(TextBcommaC)
       /\ args[c2].city = Text(TextAcommaB) /\ args[c2].country = Text(TextB)
       /\ QueryText(c1) # QueryText(c2)

\* C10 (no partial results): the record of every resolved invocation has
\* its six fields populated.
C10_NoPartialResult ==
    \A c \in Calls :
       pc[c] = "resolved" =>
          LET r == outcome[c].value
          IN  /\ r.utc.valid
              /\ r.local.valid
              /\ ~r.timezoneOffset.nan
              /\ r.timezone # "none"
              /\ [lat |-> r.lat, lng |-> r.lng] # NoLocation

\* the UTC offset, in minutes, that the zone data gives for the call in math
ZoneMinutes == ZoneOffsetMin(math.zone, math.t)

\* C11 (offset decoding): the number getTimezoneOffset returns is the
\* zone's offset in hours, minutes/60; in minutes, 60 times the number
\* returned equals the offset (+05:30 gives 5.5, +08:45 gives 8.75,
\* -09:30 gives -9.5, -08:00 gives -8).
C11_OffsetDecoding ==
    math.step \in {"offset", "utc", "local"} =>
       /\ ~math.offset.nan
       /\ 60 * math.offset.val = ZoneMinutes

\* the instants of the timeline at which the zone changes its offset
ZoneTransitions(zone) ==
    {m \in MinuteOfDay(84, 20)..(MinuteOfDay(84, 20) + 30 * TimelineSteps) :
        ZoneOffsetMin(zone, Instant(m - 1)) # ZoneOffsetMin(zone, Instant(m))}

\* the wall-clock reading t is the reading of a transition instant, or lies
\* in the stretch of local time the transition skips or repeats
AtDstBoundary(zone, t) ==
    \E T \in ZoneTransitions(zone) :
       LET before == ZoneOffsetMin(zone, Instant(T - 1))
           after == ZoneOffsetMin(zone, Instant(T))
           lo == IF before < after THEN before ELSE after
           hi == IF before < after THEN after ELSE before
       IN  \/ t.min = T
           \/ t.min >= T + lo /\ t.min < T + hi

\* C12 (round trip): convertUtcToLocal(convertToUtcDate(t, z), z) is t,
\* unless t falls at a DST-transition boundary of z.
C12_RoundTrip ==
    (math.step = "local" /\ ~AtDstBoundary(math.zone, math.t)) =>
       math.local = math.t

\* invocation c holds a location, and it is the one stored under its
\* location key
HasLocation(c) ==
    /\ location[c] # NoLocation
    /\ locationKeyOf(c) \in DOMAIN locationStore
    /\ locationStore[locationKeyOf(c)] = location[c]

\* C13 (ordering): an invocation that has reached the coordinate-keyed
\* cache layer or issued a timezone lookup holds the location of its
\* location key; the step in which it issues the lookup leaves it with that
\* location; and an invocation whose location resolution failed is rejected
\* without ever issuing a timezone lookup.
C13_Ordering ==
    /\ [](\A c \in Calls :
            (timezoneRequests[c] > 0 \/ pc[c] \in {"tzReq", "tzWait"}) =>
               HasLocation(c))
    /\ [](\A c \in Calls :
            (placeAnswer[c] \in {"fail", "ZERO_RESULTS"}
               \/ (pc[c] = "rejected" /\ location[c] = NoLocation)) =>
               /\ pc[c] = "rejected"
               /\ timezoneRequests[c] = 0)
    /\ [][\A c \in Calls :
            timezoneRequests'[c] > timezoneRequests[c] =>
               /\ location'[c] # NoLocation
               /\ locationKeyOf(c)' \in DOMAIN locationStore'
               /\ placeAnswer'[c] \in {"none", "OK"}]_vars

C13_Witness ==
    \E c1, c2 \in Calls :
       /\ placeAnswer[c1] = "ZERO_RESULTS"
       /\ pc[c1] = "rejected" /\ timezoneRequests[c1] = 0
       /\ placeAnswer[c2] = "OK"
       /\ timezoneRequests[c2] = 1 /\ HasLocation(c2)

SamePlace(c1, c2) ==
    /\ args[c1].city = args[c2].city
    /\ args[c1].country = args[c2].country

\* C14: two invocations with the same (city, country) and different dates
\* have the same location key and different outer keys.
C14_DateKeys ==
    \A c1, c2 \in Calls :
       (/\ Invoked(c1) /\ Invoked(c2)
        /\ SamePlace(c1, c2)
        /\ dateOf(c1) # dateOf(c2))
       => /\ keys[c1].location = keys[c2].location
          /\ keys[c1].outer # keys[c2].outer

\* C15 (cache backend failure): an invocation to which cache.wrap reported
\* an error of the store, at whichever layer, is rejected with that very
\* error; the step in which it is reported stores nothing under an outer
\* key, and when the error comes from an inner layer the invocation's outer
\* key is still empty.
C15_BackendFailure ==
    /\ [](\A c \in Calls :
            wrapError[c] # "none" =>
               /\ pc[c] = "rejected"
               /\ outcome[c] = Failed(CacheBackendError))
    /\ [][\A c \in Calls :
            (wrapError[c] = "none" /\ wrapError'[c] # "none") =>
               /\ outerStore' = outerStore
               /\ wrapError'[c] # "outer" =>
                     outerKeyOf(c)' \notin DOMAIN outerStore']_vars

C15_Witness ==
    \E c1, c2 \in Calls :
       /\ wrapError[c1] = "timezone" /\ placeAnswer[c1] = "OK"
       /\ wrapError[c2] = "location"
       /\ pc[c1] = "rejected" /\ pc[c2] = "rejected"

\* the promise of invocation c has settled
PromiseSettled(c) == pc[c] \in {"resolved", "rejected"}

\* C16 (eventual single settlement): the promise of every invocation that
\* passed the validation eventually settles; a settled promise never
\* changes its state or its value; and it is resolved with a record or
\* rejected with an error.
C16_Settlement ==
    /\ \A c \in Calls : Invoked(c) ~> PromiseSettled(c)
    /\ [][\A c \in Calls :
            PromiseSettled(c) =>
               pc'[c] = pc[c] /\ outcome'[c] = outcome[c]]_vars
    /\ [](\A c \in Calls :
            /\ pc[c] = "resolved" =>
                  outcome[c].ok /\ outcome[c].err = NoError
            /\ pc[c] = "rejected" =>
                  ~outcome[c].ok /\ outcome[c].err # NoError)

\* one invocation was rejected after its timezone lookup had failed, and
\* with it another one, made meanwhile with other arguments, that was
\* waiting for that lookup
C16_Witness ==
    \E c1, c2 \in Calls :
       /\ timezoneAnswer[c1] = "fail" /\ pc[c1] = "rejected"
       /\ Invoked(c2) /\ c1 \notin settledBefore[c2]
       /\ ~SameArgs(c1, c2) /\ NoRequests(c2)
       /\ pc[c2] = "rejected" /\ outcome[c2] = outcome[c1]

TimezoneFailed(c) == timezoneAnswer[c] \in {"fail", "no id"}

\* C17 (layer independence on partial failure): the step in which the
\* timezone lookup of an invocation fails changes none of the three stores
\* and leaves the location under the location key and nothing under the
\* invocation's coordinate key and outer key; the location a place search
\* found stays stored; and the next invocation with the same arguments
\* issues no place search and exactly one timezone lookup.
C17_LayerIndependence ==
    /\ [][\A c \in Calls :
            (timezoneAnswer[c] = "none" /\ TimezoneFailed(c)') =>
               /\ UNCHANGED <<locationStore, timezoneStore, outerStore>>
               /\ HasLocation(c)'
               /\ timezoneKeyOf(c)' \notin DOMAIN timezoneStore'
               /\ outerKeyOf(c)' \notin DOMAIN outerStore']_vars
    /\ [](\A c \in Calls : placeAnswer[c] = "OK" => HasLocation(c))
    /\ [](\A c1, c2 \in Calls :
            (/\ placeAnswer[c1] = "OK" /\ TimezoneFailed(c1)
             /\ Follows(c1, c2) /\ SameArgs(c1, c2)
             /\ AloneBefore(c1, c2))
            => placeRequests[c2] = 0 /\ timezoneRequests[c2] = 1)

C17_Witness ==
    \E c1, c2 \in Calls :
       /\ placeAnswer[c1] = "OK" /\ timezoneAnswer[c1] = "fail"
       /\ Follows(c1, c2) /\ SameArgs(c1, c2) /\ AloneBefore(c1, c2)
       /\ placeRequests[c2] = 0 /\ timezoneRequests[c2] = 1
       /\ timezoneAnswer[c2] = "OK" /\ pc[c2] = "resolved"

RaceSettled(c) == race[c].by \in {"promise", "timeout"}

\* C18 (first to settle wins): the race of promiseTimeout settles once and
\* never changes afterwards; it settles with the outcome of the operation
\* in the step in which the operation settles, or with the timeout error in
\* the step in which the timer fires while the operation is pending; a race
\* the operation won carries the operation's value or error; and the timer
\* of such a race still fires, without changing it.
C18_FirstSettles ==
    /\ [][\A c \in Calls : RaceSettled(c) => race'[c] = race[c]]_vars
    /\ [][\A c \in Calls :
            (race[c].by = "pending" /\ RaceSettled(c)') =>
               \/ /\ ~PromiseSettled(c) /\ PromiseSettled(c)'
                  /\ timer'[c] = timer[c]
                  /\ race'[c] = RaceWonBy("promise", outcome'[c])
               \/ /\ ~PromiseSettled(c) /\ ~PromiseSettled(c)'
                  /\ timer[c] = "armed" /\ timer'[c] = "fired"
                  /\ race'[c] = RaceWonBy("timeout", Failed(Error("Timed out")))]_vars
    /\ [](\A c \in Calls :
            race[c].by = "promise" =>
               PromiseSettled(c) /\ race[c].with = outcome[c])
    /\ \A c \in TimedCalls :
          (race[c].by = "promise" /\ timer[c] = "armed")
             ~> (race[c].by = "promise" /\ timer[c] = "fired")

\* the operation was rejected, the caller got its error from the race, and
\* the timer has fired since
C18_Witness ==
    \E c \in Calls :
       /\ timer[c] = "fired"
       /\ race[c] = RaceWonBy("promise", Failed(RequestError("timezone lookup")))
       /\ pc[c] = "rejected" /\ timezoneRequests[c] = 1
=============================================================================
